---- MODULE Spec2Model ----
(***************************************************************************)
(* Employee face registration and tracking: the registration pipeline,    *)
(* the users table of data.py, the known_faces cache and the tracking      *)
(* loop of face_detection.py.                                              *)
(*                                                                         *)
(* Numbers.  An encoding is the per-channel mean of a face crop.  A       *)
(* float is kept as an integer count of binary fractions of 1.0: a        *)
(* float64 value counts units of 2^-FracBits64, a float32 value units of  *)
(* 2^-FracBits32, with FracBits32 < FracBits64.  What is kept of the two  *)
(* IEEE formats is that float32 holds fewer significand bits than float64 *)
(* (so astype(float32) rounds) and that an item takes 4 bytes instead of  *)
(* 8.                                                                      *)
(***************************************************************************)
EXTENDS Integers, Sequences, FiniteSets, TLC

VARIABLES
    known_faces,         \* face_detection.py:14, the dict's entry array
    registration_queue,  \* face_detection.py:70
    workers,             \* the threads started at face_detection.py:98
    after_pending,       \* scheduled check_registration_result callbacks
    regs,                \* one record per submission (name, image, outcome)
    store,               \* rows of table users, in rowid order
    employee_listbox,    \* iids of the Treeview, in order
    got,                 \* what the last data.get_user call returned
    upserted,            \* per name, the arguments of its last data.add_user call
    last,                \* the last operation on the table (or delete declined) and its name
    trackers,            \* the threads started at face_detection.py:158
    movement_log         \* lines of movement_log.txt

vars == <<known_faces, registration_queue, workers, after_pending, regs, store,
          employee_listbox, got, upserted, last, trackers, movement_log>>

regVars == <<registration_queue, workers, after_pending, regs>>
dbVars == <<store, employee_listbox>>
histVars == <<got, upserted, last>>
trackVars == <<trackers, movement_log>>

----------------------------------------------------------------------------
(* Bounds *)

FracBits64 == 2
FracBits32 == 1
MaxSubmissions == 2
MaxLog == 2
MaxRegions == 2
MaxTrackers == 2

(* Program constants *)

Threshold == 30
EscKey == 27
Float64ItemSize == 8
Float32ItemSize == 4

Names == {"alice", "bob", "carol"}

NoArray == [dtype |-> "", v |-> <<>>]

----------------------------------------------------------------------------
(* Arithmetic helpers *)

RECURSIVE Pow2(_)
Pow2(n) == IF n = 0 THEN 1 ELSE 2 * Pow2(n - 1)

Unit64 == Pow2(FracBits64)
Ratio == Pow2(FracBits64 - FracBits32)

\* round-half-to-even of a / b, a >= 0, b > 0
RoundDiv(a, b) ==
    LET q == a \div b
        r == a % b
    IN  IF 2 * r < b THEN q
        ELSE IF 2 * r > b THEN q + 1
        ELSE IF q % 2 = 0 THEN q ELSE q + 1

RECURSIVE SumSeq(_)
SumSeq(s) == IF s = <<>> THEN 0 ELSE Head(s) + SumSeq(Tail(s))

----------------------------------------------------------------------------
(* Images.  A face crop is an H x W x 3 uint8 array, kept as the sequence  *)
(* of its pixels; a pixel is <<c1, c2, c3>>.                               *)

Px(a, b, c) == <<a, b, c>>

F0 == << Px(0, 0, 0) >>
F10 == << Px(20, 0, 0), Px(0, 0, 0) >>
F20 == << Px(20, 0, 0) >>
F30 == << Px(0, 18, 24) >>
FQ == << Px(1, 0, 0), Px(0, 0, 0), Px(0, 0, 0), Px(0, 0, 0) >>

Faces == {F0, F20, F30}
StoreFaces == {F10, FQ}
EmptyCrop == <<>>
Probes == {F0, F10, EmptyCrop}

\* np.mean(face_img, axis=(0, 1)): a float64 array of three channel means
Mean(face) ==
    [dtype |-> "float64",
     v |-> [c \in 1..3 |->
              RoundDiv(SumSeq([i \in 1..Len(face) |-> face[i][c]]) * Unit64,
                       Len(face))]]

\* encoding.astype(np.float32)
AsType32(arr) ==
    [dtype |-> "float32",
     v |-> [c \in 1..Len(arr.v) |->
              IF arr.dtype = "float32" THEN arr.v[c]
              ELSE RoundDiv(arr.v[c], Ratio) * Ratio]]

ItemSize(arr) == IF arr.dtype = "float64" THEN Float64ItemSize ELSE Float32ItemSize

RECURSIVE LEBytes(_, _)
LEBytes(x, k) == IF k = 0 THEN <<>> ELSE <<x % 256>> \o LEBytes(x \div 256, k - 1)

RECURSIVE LEValue(_)
LEValue(bs) == IF bs = <<>> THEN 0 ELSE Head(bs) + 256 * LEValue(Tail(bs))

RECURSIVE Flatten(_)
Flatten(ss) == IF ss = <<>> THEN <<>> ELSE Head(ss) \o Flatten(Tail(ss))

\* ndarray.tobytes(): the items one after the other, ItemSize bytes each
ToBytes(arr) ==
    Flatten([c \in 1..Len(arr.v) |->
               LEBytes(IF arr.dtype = "float64" THEN arr.v[c] ELSE arr.v[c] \div Ratio,
                       ItemSize(arr))])

\* np.frombuffer(bytes, dtype=np.float32)
FromBuffer64(bs) ==
    [dtype |-> "float64",
     v |-> [c \in 1..(Len(bs) \div Float64ItemSize) |->
              LEValue(SubSeq(bs, Float64ItemSize * (c - 1) + 1, Float64ItemSize * c))]]

FromBuffer32(bs) ==
    [dtype |-> "float32",
     v |-> [c \in 1..(Len(bs) \div Float32ItemSize) |->
              Ratio * LEValue(SubSeq(bs, Float32ItemSize * (c - 1) + 1,
                                     Float32ItemSize * c))]]

\* Image.fromarray(a).save(buf, format='PNG'); buf.getvalue()
SavePNG(img) == <<Len(img)>> \o Flatten(img)

\* np.array(Image.open(io.BytesIO(bytes)))
OpenPNG(bs) == [i \in 1..Head(bs) |-> SubSeq(bs, 3 * (i - 1) + 2, 3 * i + 1)]

----------------------------------------------------------------------------
(* data.py: the users table.  The synthetic id is never read; the table is *)
(* the sequence of its rows in rowid order.                                *)

RECURSIVE RemoveName(_, _)
RemoveName(rows, name) ==
    IF rows = <<>> THEN <<>>
    ELSE IF Head(rows).name = name THEN RemoveName(Tail(rows), name)
    ELSE <<Head(rows)>> \o RemoveName(Tail(rows), name)

\* INSERT OR REPLACE ... : the row in conflict on UNIQUE(name) is deleted,
\* the new row is inserted
InsertPlain(rows, row) == Append(rows, row)

InsertOrReplace(rows, row) == Append(RemoveName(rows, row.name), row)

add_user(rows, name, encoding, image_array) ==
    InsertOrReplace(rows, [name |-> name,
                           encoding |-> ToBytes(AsType32(encoding)),
                           image |-> SavePNG(image_array)])

RowsOf(rows, name) == {i \in 1..Len(rows) : rows[i].name = name}

\* the value None is [found |-> FALSE, ...]
get_user(rows, name) ==
    IF RowsOf(rows, name) = {}
    THEN [found |-> FALSE, encoding |-> NoArray, image |-> <<>>]
    ELSE LET row == rows[CHOOSE i \in RowsOf(rows, name) :
                           \A j \in RowsOf(rows, name) : i <= j]
         IN  [found |-> TRUE, encoding |-> FromBuffer32(row.encoding),
              image |-> OpenPNG(row.image)]

get_all_users(rows) ==
    [i \in 1..Len(rows) |->
        [name |-> rows[i].name,
         encoding |-> FromBuffer32(rows[i].encoding),
         image |-> OpenPNG(rows[i].image)]]

\* DELETE FROM users WHERE name=?
DeleteFromNone(rows, name) == rows

DeleteFrom(rows, name) == RemoveName(rows, name)

----------------------------------------------------------------------------
(* known_faces: a Python dict.  It is kept as CPython keeps it: the array  *)
(* of entries in insertion order, an entry deleted being left in place as  *)
(* a dummy.  (The array is compacted only on the resize that the sixth     *)
(* insertion forces, which the bounds keep out of reach.)                  *)

Dummy == [live |-> FALSE, name |-> "", encoding |-> NoArray, image |-> <<>>]

Entry(name, encoding, image) ==
    [live |-> TRUE, name |-> name, encoding |-> encoding, image |-> image]

LiveAt(d) == {i \in 1..Len(d) : d[i].live}

\* len(known_faces), the dict's ma_used
Used(d) == Cardinality(LiveAt(d))

Slot(d, name) == {i \in LiveAt(d) : d[i].name = name}

Contains(d, name) == Slot(d, name) # {}

\* known_faces[name] = value: in place when the key is there, else appended
SetItem(d, name, e) ==
    IF Contains(d, name)
    THEN [i \in 1..Len(d) |-> IF i \in Slot(d, name) THEN e ELSE d[i]]
    ELSE Append(d, e)

\* del known_faces[name]
DelItemClear(d, name) == [i \in 1..Len(d) |-> Dummy]

DelItem(d, name) == [i \in 1..Len(d) |-> IF i \in Slot(d, name) THEN Dummy ELSE d[i]]

----------------------------------------------------------------------------
(* The image files a user can submit, by what RetinaFace.extract_faces     *)
(* does with them.                                                          *)

ImageFiles ==
    { [missing |-> FALSE, raises |-> TRUE,  faces |-> <<>>],
      [missing |-> FALSE, raises |-> FALSE, faces |-> <<>>],
      [missing |-> FALSE, raises |-> FALSE, faces |-> <<F0>>],
      [missing |-> FALSE, raises |-> FALSE, faces |-> <<F20, F0>>] }

\* preview_label has no file_path yet
NoFile == [missing |-> TRUE, raises |-> FALSE, faces |-> <<>>]

NoFace == [some |-> FALSE, img |-> <<>>]
SomeFace(img) == [some |-> TRUE, img |-> img]

\* detect_and_register's return value
DetectedFaceAlways(file) ==
    IF file.faces = <<>> THEN SomeFace(F0) ELSE SomeFace(file.faces[1])

DetectedFace(file) ==
    IF file.raises \/ file.faces = <<>> THEN NoFace ELSE SomeFace(file.faces[1])

\* detect_and_register's effect on known_faces
detect_and_register(d, file, name) ==
    LET face == DetectedFace(file)
    IN  IF face.some THEN SetItem(d, name, Entry(name, Mean(face.img), face.img))
        ELSE d

ListNames(rows) == [i \in 1..Len(get_all_users(rows)) |-> get_all_users(rows)[i].name]

\* refresh_all_lists -> update_employee_list with an empty search text
refresh_all_lists(rows) == ListNames(rows)

NoResult == [name |-> "", found |-> FALSE, encoding |-> NoArray, image |-> <<>>]
NoPut == [given |-> FALSE, encoding |-> NoArray, image |-> <<>>]
NoOp == [op |-> "", name |-> "", present |-> FALSE]

NoFrame == [raises |-> FALSE, isdict |-> FALSE, regions |-> <<>>]

\* a tracker thread's locals; warned is the [WARN] line the current turn of
\* the loop printed, seen the entries the current for loop has been given
Idle == [pc |-> "idle", cap |-> "none", ret |-> TRUE, key |-> 0, frame |-> NoFrame,
         ri |-> 0, pos |-> 0, used |-> 0, seen |-> <<>>,
         matched |-> FALSE, annotations |-> <<>>, warned |-> ""]

TrackerIds == {1}

\* faces.db outlives the process: the rows data.add_user left in it
AppStores ==
    { <<>>,
      add_user(add_user(<<>>, "alice", Mean(F0), F0), "bob", Mean(F10), F10) }

Init ==
    /\ known_faces = <<>>
    /\ registration_queue = <<>>
    /\ workers = {}
    /\ after_pending = 0
    /\ regs = <<>>
    /\ store \in AppStores
    /\ employee_listbox = refresh_all_lists(store)
    /\ got = NoResult
    /\ upserted = [n \in Names |-> NoPut]
    /\ last = NoOp
    /\ trackers = [t \in TrackerIds |-> Idle]
    /\ movement_log = <<>>

----------------------------------------------------------------------------
(* Registration: threaded_register_face, worker, check_registration_result *)

\* threaded_register_face, name = name_entry.get().strip()
Submit(name, file) ==
    /\ Len(regs) < MaxSubmissions
    /\ IF name = "" \/ file = NoFile
       THEN UNCHANGED <<workers, after_pending, regs>>
       ELSE /\ regs' = Append(regs, [name |-> name, state |-> "Detecting", handled |-> 0])
            /\ workers' = workers \cup
                 {[id |-> Len(regs) + 1, name |-> name, file |-> file,
                   pc |-> "detect", face |-> NoFace]}
            /\ after_pending' = after_pending + 1
    /\ UNCHANGED <<known_faces, registration_queue, dbVars, histVars, trackVars>>

\* worker: face = detect_and_register(file_path, name)
WorkerDetect(w) ==
    /\ w.pc = "detect"
    /\ known_faces' = detect_and_register(known_faces, w.file, w.name)
    /\ workers' = (workers \ {w}) \cup
                    {[w EXCEPT !.pc = "put", !.face = DetectedFace(w.file)]}
    /\ UNCHANGED <<registration_queue, after_pending, regs, dbVars, histVars, trackVars>>

\* worker: registration_queue.put((face, name))
WorkerPutDrop(w) ==
    /\ w.pc = "put"
    /\ workers' = workers \ {w}
    /\ UNCHANGED <<known_faces, registration_queue, after_pending, regs, dbVars,
                   histVars, trackVars>>

WorkerPut(w) ==
    /\ w.pc = "put"
    /\ registration_queue' =
          Append(registration_queue, [face |-> w.face, name |-> w.name, id |-> w.id])
    /\ workers' = workers \ {w}
    /\ UNCHANGED <<known_faces, after_pending, regs, dbVars, histVars, trackVars>>

\* registration_queue.get_nowait(): what is left on the queue
QueueAfterPeek(q) == q

QueueAfterGet(q) == Tail(q)

\* check_registration_result, run by the timer root.after(100, ...)
CheckResult ==
    /\ after_pending > 0
    /\ IF registration_queue = <<>>
       THEN \* queue.Empty: root.after(100, check_registration_result)
            UNCHANGED <<registration_queue, after_pending, regs, dbVars>>
       ELSE LET item == Head(registration_queue)
            IN  /\ registration_queue' = QueueAfterGet(registration_queue)
                /\ after_pending' = after_pending - 1
                /\ regs' = [regs EXCEPT ![item.id] =
                              [@ EXCEPT !.state = IF item.face.some THEN "Success"
                                                  ELSE "Failure",
                                        !.handled = IF @ < 2 THEN @ + 1 ELSE @]]
                /\ UNCHANGED store
                /\ employee_listbox' = IF item.face.some THEN refresh_all_lists(store)
                                       ELSE employee_listbox
    /\ UNCHANGED <<known_faces, workers, histVars, trackVars>>

----------------------------------------------------------------------------
(* Employee list: delete_employee *)

Selections == {<<>>} \cup {<<employee_listbox[i]>> : i \in 1..Len(employee_listbox)}

\* the body of delete_employee once the user has confirmed
DeleteConfirmed(name) ==
    /\ store' = DeleteFrom(store, name)
    /\ known_faces' = IF Contains(known_faces, name) THEN DelItem(known_faces, name)
                      ELSE known_faces
    /\ employee_listbox' = refresh_all_lists(store')
    /\ upserted' = [upserted EXCEPT ![name] = NoPut]
    /\ last' = [op |-> "delete", name |-> name, present |-> RowsOf(store, name) # {}]

delete_employee(selected, confirm) ==
    /\ IF selected = <<>>
       THEN UNCHANGED <<dbVars, known_faces, upserted, last>>
       ELSE IF ~confirm
       THEN \* messagebox.askyesno answered No
            /\ UNCHANGED <<dbVars, known_faces, upserted>>
            /\ last' = [op |-> "declined", name |-> selected[1],
                        present |-> RowsOf(store, selected[1]) # {}]
       ELSE DeleteConfirmed(selected[1])
    /\ UNCHANGED <<regVars, got, trackVars>>

RegNext ==
    \/ \E name \in Names \cup {""}, file \in ImageFiles \cup {NoFile} : Submit(name, file)
    \/ \E w \in workers : WorkerDetect(w)
    \/ \E w \in workers : WorkerPut(w)
    \/ CheckResult

ListNext ==
    \E selected \in Selections, confirm \in BOOLEAN : delete_employee(selected, confirm)

Next == RegNext \/ ListNext

Spec == Init /\ [][Next]_vars

\* the worker threads run, and Tk runs the callbacks it was given
FairSpec ==
    /\ Spec
    /\ WF_vars(\E w \in workers : WorkerDetect(w))
    /\ WF_vars(\E w \in workers : WorkerPut(w))
    /\ WF_vars(CheckResult)

----------------------------------------------------------------------------
(* data.py called directly: add_user, get_user, and the statement of       *)
(* delete_employee for any name                                             *)

\* the caches that registrations of alice and bob leave
OneCaches == {<<Entry(n, Mean(f), f)>> : n \in {"alice", "bob"}, f \in Faces}

TwoCaches ==
    {<<Entry(n, Mean(f), f), Entry(m, Mean(g), g)>> :
        n \in {"alice", "bob"}, m \in {"alice", "bob"}, f \in Faces, g \in Faces}

InitCaches == {<<>>} \cup OneCaches \cup {c \in TwoCaches : c[1].name # c[2].name}

InitStore ==
    /\ known_faces = <<Entry("alice", Mean(F0), F0), Entry("bob", Mean(F10), F10)>>
    /\ registration_queue = <<>>
    /\ workers = {}
    /\ after_pending = 0
    /\ regs = <<>>
    /\ store = <<>>
    /\ employee_listbox = <<>>
    /\ got = NoResult
    /\ upserted = [n \in Names |-> NoPut]
    /\ last = NoOp
    /\ trackers = [t \in TrackerIds |-> Idle]
    /\ movement_log = <<>>

AddUser(name, image) ==
    /\ Len(store) <= Cardinality(Names)
    /\ store' = add_user(store, name, Mean(image), image)
    /\ upserted' = [upserted EXCEPT ![name] =
                      [given |-> TRUE, encoding |-> Mean(image), image |-> image]]
    /\ last' = [op |-> "add", name |-> name, present |-> RowsOf(store, name) # {}]
    /\ UNCHANGED <<known_faces, regVars, employee_listbox, got, trackVars>>

GetUser(name) ==
    /\ got' = [name |-> name] @@ get_user(store, name)
    /\ last' = [op |-> "get", name |-> name, present |-> RowsOf(store, name) # {}]
    /\ UNCHANGED <<known_faces, regVars, dbVars, upserted, trackVars>>

DeleteUser(name) ==
    /\ DeleteConfirmed(name)
    /\ UNCHANGED <<regVars, got, trackVars>>

NextStore ==
    \/ \E name \in Names, image \in StoreFaces : AddUser(name, image)
    \/ \E name \in Names : GetUser(name)
    \/ \E name \in Names : DeleteUser(name)

SpecStore == InitStore /\ [][NextStore]_vars

----------------------------------------------------------------------------
(* Tracking: start_tracking and its thread track()                         *)

\* the frames cap.read() can deliver, by what RetinaFace.detect_faces does
\* with them; regions are the crops frame[y1:y2, x1:x2] of the detections
RegionLists == UNION {[1..k -> Probes] : k \in 0..MaxRegions}

Frames ==
    { [raises |-> TRUE, isdict |-> FALSE, regions |-> <<>>],
      [raises |-> FALSE, isdict |-> FALSE, regions |-> <<>>] }
    \cup {[raises |-> FALSE, isdict |-> TRUE, regions |-> r] : r \in RegionLists}

\* np.linalg.norm(encoding - known_enc), squared, in units of 2^-FracBits64
Dist2(a, b) == SumSeq([c \in 1..3 |-> (a.v[c] - b.v[c]) * (a.v[c] - b.v[c])])

\* distance < 30
BelowOrEqual(d2) == d2 <= Threshold * Threshold * Unit64 * Unit64

Below(d2) == d2 < Threshold * Threshold * Unit64 * Unit64

Running(tr) == tr.cap = "open"

StartTracking(t) ==
    /\ trackers[t].pc \in {"idle", "done"}
    /\ trackers' = [trackers EXCEPT ![t] = [Idle EXCEPT !.pc = "open"]]
    /\ UNCHANGED <<known_faces, regVars, dbVars, histVars, movement_log>>

\* cap = cv2.VideoCapture(0); if not cap.isOpened(): ... return
TrackOpen(t, opened) ==
    /\ trackers[t].pc = "open"
    /\ trackers' = [trackers EXCEPT ![t] =
                      IF opened THEN [@ EXCEPT !.cap = "open", !.pc = "read"]
                      ELSE [@ EXCEPT !.cap = "failed", !.pc = "done"]]
    /\ UNCHANGED <<known_faces, regVars, dbVars, histVars, movement_log>>

\* break; cap.release(); cv2.destroyAllWindows()
Released(tr) == [tr EXCEPT !.cap = "released", !.pc = "done"]

\* ret, frame = cap.read(); if not ret: break
TrackRead(t, ret, frame) ==
    /\ trackers[t].pc = "read"
    /\ trackers' = [trackers EXCEPT ![t] =
                      IF ret
                      THEN [Idle EXCEPT !.cap = "open", !.pc = "detect", !.frame = frame]
                      ELSE Released([@ EXCEPT !.ret = FALSE])]
    /\ UNCHANGED <<known_faces, regVars, dbVars, histVars, movement_log>>

\* except Exception as e: print(f"[WARN] Detection error: {e}")
DetectionErrorFatal(tr, e) == [tr EXCEPT !.cap = "lost", !.pc = "done"]

DetectionError(tr, e) == [tr EXCEPT !.warned = e, !.pc = "show"]

\* detections = RetinaFace.detect_faces(frame); if isinstance(detections, dict)
TrackDetect(t) ==
    LET tr == trackers[t]
    IN
    /\ tr.pc = "detect"
    /\ trackers' = [trackers EXCEPT ![t] =
                      IF tr.frame.raises THEN DetectionError(tr, "detect_faces")
                      ELSE IF ~tr.frame.isdict THEN [tr EXCEPT !.pc = "show"]
                      ELSE [tr EXCEPT !.ri = 1, !.pc = "region"]]
    /\ UNCHANGED <<known_faces, regVars, dbVars, histVars, movement_log>>

\* for face_key in detections: ... if face_crop.size == 0: continue
\* encoding = np.mean(face_crop, axis=(0, 1)); iter(known_faces.items())
TrackRegion(t) ==
    LET tr == trackers[t]
    IN
    /\ tr.pc = "region"
    /\ trackers' = [trackers EXCEPT ![t] =
                      IF tr.ri > Len(tr.frame.regions) THEN [tr EXCEPT !.pc = "show"]
                      ELSE IF tr.frame.regions[tr.ri] = EmptyCrop
                           THEN [tr EXCEPT !.ri = tr.ri + 1]
                      ELSE [tr EXCEPT !.pos = 0, !.used = Used(known_faces),
                                      !.seen = <<>>, !.matched = FALSE, !.pc = "iter"]]
    /\ UNCHANGED <<known_faces, regVars, dbVars, histVars, movement_log>>

\* the tracker after the hit: rectangle, putText, log_movement, break
HitNoBreak(tr, name) ==
    [tr EXCEPT !.annotations = Append(@, [region |-> tr.ri, name |-> name]),
               !.matched = TRUE]

Hit(tr, name) ==
    [tr EXCEPT !.annotations = Append(@, [region |-> tr.ri, name |-> name]),
               !.matched = TRUE, !.ri = @ + 1, !.pc = "region"]

\* log_movement(name): open("movement_log.txt", "a").write(...)
log_movement(log, name) == Append(log, name)

\* one turn of: for name, data in known_faces.items()
TrackIter(t) ==
    LET tr == trackers[t]
        rest == {i \in LiveAt(known_faces) : i > tr.pos}
    IN
    /\ tr.pc = "iter"
    /\ IF Used(known_faces) # tr.used
       THEN \* RuntimeError: dictionary changed size during iteration
            /\ trackers' = [trackers EXCEPT ![t] =
                              DetectionError(tr, "dictionary changed size")]
            /\ UNCHANGED movement_log
       ELSE IF rest = {}
       THEN /\ trackers' = [trackers EXCEPT ![t] =
                              [tr EXCEPT !.ri = @ + 1, !.pc = "region"]]
            /\ UNCHANGED movement_log
       ELSE LET i == CHOOSE k \in rest : \A m \in rest : k <= m
                e == known_faces[i]
                d2 == Dist2(Mean(tr.frame.regions[tr.ri]), e.encoding)
                looked == [tr EXCEPT !.pos = i,
                                     !.seen = Append(@, [name |-> e.name, d2 |-> d2])]
            IN  IF Below(d2)
                THEN /\ Len(movement_log) < MaxLog
                     /\ trackers' = [trackers EXCEPT ![t] = Hit(looked, e.name)]
                     /\ movement_log' = log_movement(movement_log, e.name)
                ELSE /\ trackers' = [trackers EXCEPT ![t] = looked]
                     /\ UNCHANGED movement_log
    /\ UNCHANGED <<known_faces, regVars, dbVars, histVars>>

\* cv2.imshow(...); if cv2.waitKey(1) == 27: break
TrackShow(t, key) ==
    LET tr == trackers[t]
    IN
    /\ tr.pc = "show"
    /\ trackers' = [trackers EXCEPT ![t] =
                      IF key = EscKey THEN Released([tr EXCEPT !.key = key])
                      ELSE [Idle EXCEPT !.cap = "open", !.pc = "read", !.key = key,
                                        !.warned = tr.warned,
                                        !.frame = [NoFrame EXCEPT
                                                     !.raises = tr.frame.raises]]]
    /\ UNCHANGED <<known_faces, regVars, dbVars, histVars, movement_log>>

TrackNext ==
    \/ \E t \in TrackerIds : StartTracking(t)
    \/ \E t \in TrackerIds, opened \in BOOLEAN : TrackOpen(t, opened)
    \/ \E t \in TrackerIds, ret \in BOOLEAN, frame \in Frames : TrackRead(t, ret, frame)
    \/ \E t \in TrackerIds : TrackDetect(t)
    \/ \E t \in TrackerIds : TrackRegion(t)
    \/ \E t \in TrackerIds : TrackIter(t)
    \/ \E t \in TrackerIds, key \in {EscKey, 0} : TrackShow(t, key)

\* a registration in flight when tracking starts
InFlight ==
    {{}} \cup {{[id |-> 1, name |-> n, file |-> f, pc |-> "detect", face |-> NoFace]} :
                 n \in Names,
                 f \in {[missing |-> FALSE, raises |-> FALSE, faces |-> <<g>>] :
                           g \in {F0, F20}}}

InitTrack ==
    /\ known_faces \in InitCaches
    /\ registration_queue = <<>>
    /\ workers \in InFlight
    /\ after_pending = Cardinality(workers)
    /\ regs = IF workers = {} THEN <<>>
              ELSE <<[name |-> (CHOOSE w \in workers : TRUE).name,
                      state |-> "Detecting", handled |-> 0]>>
    /\ store = add_user(<<>>, "alice", Mean(F0), F0)
    /\ employee_listbox = refresh_all_lists(store)
    /\ got = NoResult
    /\ upserted = [n \in Names |-> NoPut]
    /\ last = NoOp
    /\ trackers = [t \in TrackerIds |-> Idle]
    /\ movement_log = <<>>

NextTrack ==
    \/ TrackNext
    \/ \E w \in workers : WorkerDetect(w)
    \/ \E w \in workers : WorkerPut(w)
    \/ CheckResult
    \/ \E selected \in Selections, confirm \in BOOLEAN : delete_employee(selected, confirm)

SpecTrack == InitTrack /\ [][NextTrack]_vars

----------------------------------------------------------------------------
(* start_tracking pressed at any time: every press starts a thread of its  *)
(* own.  Here the display calls can raise as well.                         *)

\* the threads that can be alive at once
Units == 1..MaxTrackers

StartFrames == {f \in Frames : Len(f.regions) <= 1}

\* cv2.imshow or cv2.waitKey raises: no handler around lines 153-154, the
\* exception ends the thread before cap.release()
TrackShowRaises(t) ==
    /\ trackers[t].pc = "show"
    /\ trackers' = [trackers EXCEPT ![t] = [@ EXCEPT !.pc = "done"]]
    /\ UNCHANGED <<known_faces, regVars, dbVars, histVars, movement_log>>

InitStart ==
    /\ known_faces = <<Entry("alice", Mean(F0), F0)>>
    /\ registration_queue = <<>>
    /\ workers = {}
    /\ after_pending = 0
    /\ regs = <<>>
    /\ store = <<>>
    /\ employee_listbox = <<>>
    /\ got = NoResult
    /\ upserted = [n \in Names |-> NoPut]
    /\ last = NoOp
    /\ trackers = [t \in Units |-> Idle]
    /\ movement_log = <<>>

NextStart ==
    \/ \E t \in Units : StartTracking(t)
    \/ \E t \in Units, opened \in BOOLEAN : TrackOpen(t, opened)
    \/ \E t \in Units, ret \in BOOLEAN, frame \in StartFrames : TrackRead(t, ret, frame)
    \/ \E t \in Units : TrackDetect(t)
    \/ \E t \in Units : TrackRegion(t)
    \/ \E t \in Units : TrackIter(t)
    \/ \E t \in Units, key \in {EscKey, 0} : TrackShow(t, key)
    \/ \E t \in Units : TrackShowRaises(t)

SpecStart == InitStart /\ [][NextStart]_vars

----------------------------------------------------------------------------
(* Claims *)

Min(S) == CHOOSE x \in S : \A y \in S : x <= y

\* a squared distance that stands for a distance under 30
Under30(d2) == d2 < 30 * 30 * Unit64 * Unit64

TheRow(rows, name) == rows[CHOOSE i \in RowsOf(rows, name) : TRUE]

\* C1: when check_registration_result observes a found face, the Store
\* holds exactly one record for the name, with that face's encoding, and the
\* cache holds the name.
C1_SuccessUpsertsStore ==
    [][\A id \in 1..Len(regs) :
          (regs[id].state = "Detecting" /\ regs'[id].state = "Success")
          => /\ Cardinality(RowsOf(store', regs[id].name)) = 1
             /\ get_user(store', regs[id].name).encoding
                  = AsType32(Mean(Head(registration_queue).face.img))
             /\ Contains(known_faces', regs[id].name)]_vars

\* C2: a detection that finds no face, or raises, returns None and writes
\* neither the cache nor the Store; its result is observed as a Failure, and
\* observing it writes neither.
C2_NoFaceNoWrite ==
    [][/\ \A w \in workers :
            (w.pc = "detect" /\ w \notin workers'
               /\ (w.file.raises \/ w.file.faces = <<>>))
            => /\ known_faces' = known_faces
               /\ store' = store
               /\ [w EXCEPT !.pc = "put", !.face = NoFace] \in workers'
       /\ (registration_queue # <<>> /\ registration_queue' = Tail(registration_queue)
             /\ ~Head(registration_queue).face.some)
            => /\ regs'[Head(registration_queue).id].state = "Failure"
               /\ known_faces' = known_faces
               /\ store' = store
       /\ \A id \in 1..Len(regs) :
            (regs[id].state = "Detecting" /\ regs'[id].state = "Failure")
            => known_faces' = known_faces /\ store' = store]_vars

C2_Witness ==
    \E id \in 1..Len(regs) :
        /\ regs[id].state = "Failure"
        /\ Contains(known_faces, regs[id].name)
        /\ RowsOf(store, regs[id].name) # {}

\* C3: the table holds at most one row per name, and the row of a name
\* upserted carries the encoding and image of its latest upsert.
C3_OneRowPerName ==
    \A n \in Names :
        /\ Cardinality(RowsOf(store, n)) <= 1
        /\ upserted[n].given
             => /\ Cardinality(RowsOf(store, n)) = 1
                /\ TheRow(store, n).encoding = ToBytes(AsType32(upserted[n].encoding))
                /\ TheRow(store, n).image = SavePNG(upserted[n].image)

C3_Witness ==
    /\ last.op = "add"
    /\ last.present
    /\ Cardinality(RowsOf(store, last.name)) = 1
    /\ Len(store) >= 2

\* C8: deleting a name the table does not hold leaves the table as it was
\* and every cache entry of another name in its place, unchanged.
C8_DeleteAbsentNoChange ==
    [][\A n \in Names :
          (last'.op = "delete" /\ last'.name = n /\ ~last'.present)
          => /\ store' = store
             /\ Len(known_faces') = Len(known_faces)
             /\ \A i \in 1..Len(known_faces) :
                   known_faces[i].name # n => known_faces'[i] = known_faces[i]]_vars

C8_Witness ==
    /\ last.op = "delete"
    /\ ~last.present
    /\ store # <<>>
    /\ \E i \in LiveAt(known_faces) : known_faces[i].name # last.name

\* C9 as stated: get_user after add_user(name, e, img) returns an encoding
\* byte-equal to e and an image pixel-equal to img.
C9_RoundTripByteEqual ==
    (last.op = "get" /\ upserted[last.name].given)
    => /\ got.name = last.name
       /\ got.found
       /\ ToBytes(got.encoding) = ToBytes(upserted[last.name].encoding)
       /\ got.image = upserted[last.name].image

\* C9 amended: get_user after add_user(name, e, img) returns e rounded to
\* float32, byte-equal to e.astype(float32), and an image pixel-equal to img.
C9_RoundTripFloat32 ==
    (last.op = "get" /\ upserted[last.name].given)
    => /\ got.name = last.name
       /\ got.found
       /\ got.encoding = AsType32(upserted[last.name].encoding)
       /\ ToBytes(got.encoding) = ToBytes(AsType32(upserted[last.name].encoding))
       /\ got.image = upserted[last.name].image

C9_Witness ==
    /\ last.op = "get"
    /\ upserted[last.name].given
    /\ got.found
    /\ got.encoding.v # upserted[last.name].encoding.v
    /\ Len(got.image) > 1

\* C6: no result is handled twice, and the result of every submission is
\* in the end handled once.
C6_ObservedExactlyOnce ==
    /\ [](\A id \in 1..Len(regs) : regs[id].handled <= 1)
    /\ \A id \in 1..MaxSubmissions :
          (Len(regs) >= id) ~> (Len(regs) >= id /\ regs[id].handled = 1)

\* the second submission's result is observed while the first detection is
\* still in flight
C6_Witness ==
    /\ Len(regs) >= 2
    /\ regs[2].handled = 1
    /\ regs[1].handled = 0
    /\ \E w \in workers : w.id = 1

\* the entries a for loop over known_faces is given, by distance: those it
\* has been given, then those it would be given next
View(tr, probe) ==
    tr.seen \o
    [k \in 1..Cardinality({i \in LiveAt(known_faces) : i > tr.pos}) |->
        LET i == CHOOSE j \in LiveAt(known_faces) :
                    /\ j > tr.pos
                    /\ Cardinality({m \in LiveAt(known_faces) : tr.pos < m /\ m < j}) = k - 1
        IN  [name |-> known_faces[i].name,
             d2 |-> Dist2(probe, known_faces[i].encoding)]]

LoopEnds(a, b) == a.pc = "iter" /\ b # a /\ b.warned = a.warned /\ b.pc = "region"

Annotates(a, b) == Len(b.annotations) = Len(a.annotations) + 1

\* C4: the matcher answers no match when the least distance over the known
\* encodings is 30 or more, and else the name of the nearest one.
C4_NearestWins ==
    [][\A t \in TrackerIds :
          LET a == trackers[t]
              b == trackers'[t]
              v == View(b, Mean(a.frame.regions[a.ri]))
              ds == {v[k].d2 : k \in 1..Len(v)}
          IN  LoopEnds(a, b)
              => IF ds = {} \/ ~Under30(Min(ds))
                 THEN ~Annotates(a, b)
                 ELSE /\ Annotates(a, b)
                      /\ b.seen[Len(b.seen)].d2 = Min(ds)
                      /\ b.annotations[Len(b.annotations)].name
                           = b.seen[Len(b.seen)].name]_vars

C10_OneHitPerRegion ==
    [][/\ \/ movement_log' = movement_log
          \/ /\ Len(movement_log') = Len(movement_log) + 1
             /\ SubSeq(movement_log', 1, Len(movement_log)) = movement_log
             /\ \E t \in TrackerIds :
                   /\ Annotates(trackers[t], trackers'[t])
                   /\ trackers'[t].annotations[Len(trackers'[t].annotations)].name
                        = movement_log'[Len(movement_log')]
       /\ \A t \in TrackerIds :
            LET a == trackers[t]
                b == trackers'[t]
            IN  /\ b.annotations # a.annotations
                   => \/ b.annotations = <<>>
                      \/ /\ a.pc = "iter"
                         /\ b.seen # <<>>
                         /\ b.annotations =
                              Append(a.annotations,
                                     [region |-> a.ri, name |-> b.seen[Len(b.seen)].name])
                         /\ Under30(b.seen[Len(b.seen)].d2)
                         /\ \A k \in 1..(Len(b.seen) - 1) : ~Under30(b.seen[k].d2)
                         /\ movement_log' = Append(movement_log, b.seen[Len(b.seen)].name)
                /\ \A r \in 1..MaxRegions + 1 :
                      Cardinality({k \in 1..Len(b.annotations) :
                                     b.annotations[k].region = r}) <= 1
                /\ (LoopEnds(a, b) /\ \A k \in 1..Len(b.seen) : ~Under30(b.seen[k].d2))
                   => (b.annotations = a.annotations /\ movement_log' = movement_log)]_vars

\* two regions of one frame, each annotated and logged once, the second for
\* an entry that is not the first of the cache
C10_Witness ==
    \E t \in TrackerIds :
        /\ Len(trackers[t].annotations) = 2
        /\ trackers[t].annotations[1].region = 1
        /\ trackers[t].annotations[2].region = 2
        /\ Len(trackers[t].seen) >= 2
        /\ Len(movement_log) = 2

\* C11: the cache changes only in steps of the GUI thread, never in a step
\* of a worker thread, and it holds a name only once the polling step has
\* observed a found face for a registration of that name.
C11_CacheWrittenByGuiThreadOnly ==
    /\ [][known_faces' # known_faces => workers' = workers]_vars
    /\ [](\A i \in LiveAt(known_faces) :
            \E id \in 1..Len(regs) :
                /\ regs[id].name = known_faces[i].name
                /\ regs[id].state = "Success")

\* the thread of unit t has ended
Ended(tr) == tr.pc = "done"

\* C12: a tracking thread that has ended has released its capture, however
\* it ended: ESC, a failed read, a camera that did not open, an exception.
C12_ReleasedOnEveryExit ==
    \A t \in DOMAIN trackers : Ended(trackers[t]) => trackers[t].cap = "released"

\* C13: at most one tracking thread holds an open capture at a time.
C13_OneRunningLoop ==
    Cardinality({t \in DOMAIN trackers :
                   Running(trackers[t]) /\ ~Ended(trackers[t])}) <= 1

\* the results of submission id that are with its worker, on the queue
InFlightOf(id) == {w \in workers : w.id = id}
QueuedOf(id) == {k \in 1..Len(registration_queue) : registration_queue[k].id = id}

Final == {"Success", "Failure"}

\* C14: every submission has exactly one result, with its worker, on the
\* queue or observed; the pending polling callbacks are as many as the
\* results not yet observed; a worker is started only by a submission; a
\* submission that is Success or Failure stays so; and, the worker threads
\* and the timer being run, every submission becomes Success or Failure.
C14_EverySubmissionEnds ==
    /\ [](/\ after_pending = Cardinality(workers) + Len(registration_queue)
          /\ \A id \in 1..Len(regs) :
                /\ Cardinality(InFlightOf(id)) + Cardinality(QueuedOf(id))
                     + regs[id].handled = 1
                /\ regs[id].state \in Final <=> regs[id].handled = 1)
    /\ [][/\ Cardinality(workers') > Cardinality(workers) => Len(regs') = Len(regs) + 1
          /\ \A id \in 1..Len(regs) :
                regs[id].state \in Final => regs'[id] = regs[id]]_vars
    /\ \A id \in 1..MaxSubmissions :
          (Len(regs) >= id) ~> (Len(regs) >= id /\ regs[id].state \in Final)

\* a failed and a successful registration both over, and no callback left
C14_Witness ==
    /\ Len(regs) = 2
    /\ regs[1].state = "Failure"
    /\ regs[2].state = "Success"
    /\ after_pending = 0
    /\ workers = {}
    /\ registration_queue = <<>>

LastOf(seq) == seq[Len(seq)]

\* C15: a confirmed delete leaves no row and no cache entry for the name;
\* from then on a row for it appears only when a registration of the name is
\* observed as a Success and a cache entry only when a worker's
\* detect_and_register of the name returns; a turn of the tracking loop
\* annotates or logs only a name the cache holds.  A delete that is declined
\* changes neither the table nor the cache.
C15_DeleteRemovesBoth ==
    [][/\ \A n \in Names :
            /\ (last'.op = "delete" /\ last'.name = n /\ last' # last)
               => (RowsOf(store', n) = {} /\ ~Contains(known_faces', n))
            /\ (RowsOf(store, n) = {} /\ RowsOf(store', n) # {})
               => \E id \in 1..Len(regs) :
                     /\ regs[id].name = n
                     /\ regs[id].state = "Detecting"
                     /\ regs'[id].state = "Success"
            /\ (~Contains(known_faces, n) /\ Contains(known_faces', n))
               => \E w \in workers : w.name = n /\ w.pc = "detect" /\ w \notin workers'
            /\ \A t \in DOMAIN trackers :
                  (Annotates(trackers[t], trackers'[t])
                     /\ LastOf(trackers'[t].annotations).name = n)
                  => Contains(known_faces, n)
            /\ (Len(movement_log') > Len(movement_log) /\ LastOf(movement_log') = n)
               => Contains(known_faces, n)
       /\ (last'.op = "declined" /\ last' # last)
          => (store' = store /\ known_faces' = known_faces)]_vars

\* alice deleted from the table and from the cache, and a for loop since
\* then that went past her slot and was given only other names
C15_Witness ==
    /\ last.op = "delete"
    /\ last.present
    /\ RowsOf(store, last.name) = {}
    /\ ~Contains(known_faces, last.name)
    /\ \E t \in DOMAIN trackers, i \in 1..Len(known_faces) :
          /\ ~known_faces[i].live
          /\ trackers[t].pos > i
          /\ trackers[t].used = Used(known_faces)
          /\ trackers[t].seen # <<>>
          /\ \A k \in 1..Len(trackers[t].seen) : trackers[t].seen[k].name # last.name

====
